---- MODULE Spec2Model ----
(***************************************************************************)
(* A model of GeneSim-Lab's simulation engine (src/main.py): the gene      *)
(* registry, the genotype validator, the simulation groups (breeding) and  *)
(* the command processor.                                                  *)
(*                                                                         *)
(* Python strings are sequences of one-character strings, so that          *)
(* indexing, len(), upper() and lower() are computed and not assumed.  A   *)
(* command line is the list of its whitespace-separated tokens (the        *)
(* result of cmd.strip() and re.split at main.py:257-261).                 *)
(*                                                                         *)
(* Every handler is an operator from the system state (a record st of      *)
(* genes, groups and current_group) and the argument tokens to the SET of  *)
(* its possible results: the state it leaves behind, the Python exception  *)
(* class it raises ("none" when it returns) and the kind of the message    *)
(* it prints or raises.  The kinds are the spec's names for the code's     *)
(* messages (all of them ValueError in the code).                          *)
(***************************************************************************)
EXTENDS Integers, Sequences, FiniteSets, TLC

VARIABLES
    genes,          \* GeneticSimulationSystem.genes:  symbol -> Gene
    groups,         \* GeneticSimulationSystem.groups: name -> SimulationGroup
    current_group,  \* GeneticSimulationSystem.current_group (None is <<>>)
    report,         \* the last command line and what became of it
    probe           \* inputs and result of a directly applied function

vars == <<genes, groups, current_group, report, probe>>

-----------------------------------------------------------------------------
(* Strings                                                                 *)

UpperCase == <<"A", "B", "C", "D", "E", "F", "G", "H", "I", "J", "K", "L", "M",
               "N", "O", "P", "Q", "R", "S", "T", "U", "V", "W", "X", "Y", "Z">>
LowerCase == <<"a", "b", "c", "d", "e", "f", "g", "h", "i", "j", "k", "l", "m",
               "n", "o", "p", "q", "r", "s", "t", "u", "v", "w", "x", "y", "z">>

UpperSet == {UpperCase[i] : i \in DOMAIN UpperCase}
LowerSet == {LowerCase[i] : i \in DOMAIN LowerCase}

\* str.upper() and str.lower() of one character
ToUpper == [c \in LowerSet |-> UpperCase[CHOOSE i \in DOMAIN LowerCase : LowerCase[i] = c]]
ToLower == [c \in UpperSet |-> LowerCase[CHOOSE i \in DOMAIN UpperCase : UpperCase[i] = c]]

upper_char(c) == IF c \in LowerSet THEN ToUpper[c] ELSE c
lower_char(c) == IF c \in UpperSet THEN ToLower[c] ELSE c

\* str.upper() and str.lower() of a string
upper(s) == [i \in DOMAIN s |-> upper_char(s[i])]
lower(s) == [i \in DOMAIN s |-> lower_char(s[i])]

\* str.isupper() of one character
isupper(c) == c \in UpperSet

Digits == <<"0", "1", "2", "3", "4", "5", "6", "7", "8", "9">>
DigitSet == {Digits[i] : i \in DOMAIN Digits}
DigitValue(c) == (CHOOSE i \in DOMAIN Digits : Digits[i] = c) - 1

RECURSIVE DecimalValue(_)
DecimalValue(s) ==
    IF s = <<>> THEN 0
    ELSE DecimalValue(SubSeq(s, 1, Len(s) - 1)) * 10 + DigitValue(s[Len(s)])

\* int(token): whether it parses (a sign, then digits) and its value
is_int(s) ==
    LET body == IF s # <<>> /\ s[1] \in {"-", "+"} THEN Tail(s) ELSE s
    IN  body # <<>> /\ \A i \in DOMAIN body : body[i] \in DigitSet
int(s) ==
    IF s[1] = "-" THEN 0 - DecimalValue(Tail(s))
    ELSE IF s[1] = "+" THEN DecimalValue(Tail(s))
    ELSE DecimalValue(s)

Min(a, b) == IF a < b THEN a ELSE b

\* list[:n] of Python, n any integer
slice_to(list, n) ==
    IF n >= 0 THEN SubSeq(list, 1, Min(n, Len(list)))
    ELSE SubSeq(list, 1, IF Len(list) + n > 0 THEN Len(list) + n ELSE 0)

\* list.count(x)
count(list, x) == Cardinality({i \in DOMAIN list : list[i] = x})

\* [g for g in list if g != x]
RECURSIVE filter_out(_, _)
filter_out(list, x) ==
    IF list = <<>> THEN <<>>
    ELSE IF Head(list) = x THEN filter_out(Tail(list), x)
    ELSE <<Head(list)>> \o filter_out(Tail(list), x)

-----------------------------------------------------------------------------
(* Results of a call                                                       *)

None == <<>>

\* the Python exception classes the handlers raise; all derive from Exception
ExceptionClasses == {"ValueError", "KeyError", "IndexError", "AttributeError", "NameError"}

\* a call on a value (a Gene, a group, the whole system): returned or raised
Returned(v) == [val |-> v, exc |-> "none", kind |-> "none"]
Raised(v, exc, kind) == [val |-> v, exc |-> exc, kind |-> kind]

-----------------------------------------------------------------------------
(* Gene                                                                    *)

\* Gene.__init__; dominant and recessive are kept as single characters
Gene(dominant, recessive, dom_trait, rec_trait) ==
    IF Len(dominant) # 1 \/ Len(recessive) # 1
    THEN Raised(None, "ValueError", "InvalidGene")
    ELSE IF dominant = recessive
    THEN Raised(None, "ValueError", "InvalidGene")
    ELSE Returned([dominant |-> upper(dominant)[1],
                   recessive |-> lower(recessive)[1],
                   dom_trait |-> dom_trait,
                   rec_trait |-> rec_trait])

\* Gene.get_phenotype
get_phenotype(gene, genotype) ==
    IF \E i \in DOMAIN genotype : genotype[i] = gene.dominant
    THEN gene.dom_trait
    ELSE gene.rec_trait

-----------------------------------------------------------------------------
(* GeneComposition                                                         *)

\* the loop of GeneComposition.validate from 0-based index i - 1 on
RECURSIVE validate_loci(_, _, _)
validate_loci(genes_str, genes_dict, i) ==
    IF i > Len(genes_str) THEN "ok"
    ELSE LET gene_symbol == <<upper_char(genes_str[i])>>
         IN  IF gene_symbol \notin DOMAIN genes_dict THEN "UnknownGene"
             ELSE LET gene == genes_dict[gene_symbol]
                      allele1 == genes_str[i]
                      allele2 == genes_str[i + 1]
                  IN  IF {allele1, allele2} \ {gene.dominant, gene.recessive} # {}
                      THEN "InvalidAllele"
                      ELSE IF allele2 = gene.dominant /\ allele1 = gene.recessive
                      THEN "BadAlleleOrder"
                      ELSE validate_loci(genes_str, genes_dict, i + 2)

\* validate with the gene looked up under each character as written
validate_m(genes_str, genes_dict) ==
    IF Len(genes_str) % 2 # 0 THEN "MalformedGenotype"
    ELSE IF \E i \in DOMAIN genes_str : <<genes_str[i]>> \notin DOMAIN genes_dict
    THEN "UnknownGene"
    ELSE validate_loci(genes_str, genes_dict, 1)

\* GeneComposition.validate: "ok", or the kind of the ValueError it raises
validate(genes_str, genes_dict) ==
    IF Len(genes_str) % 2 # 0 THEN "MalformedGenotype"
    ELSE validate_loci(genes_str, genes_dict, 1)

-----------------------------------------------------------------------------
(* SimulationGroup                                                         *)

M_random == <<"r", "a", "n", "d", "o", "m">>
M_cross == <<"c", "r", "o", "s", "s">>

\* SimulationGroup.__init__
SimulationGroup ==
    [current_generation |-> <<>>,
     gene_structure |-> <<>>,
     gene_length |-> 0,
     experiment_mode |-> M_random,
     breed_history |-> <<>>]

\* the loop of initialize_structure from index i on: the structure built so
\* far is kept in self when the loop raises
RECURSIVE initialize_loop(_, _, _, _, _)
initialize_loop(self, genes_str, genes_dict, seen_genes, i) ==
    IF i > Len(genes_str)
    THEN Returned([self EXCEPT !.gene_length = Len(genes_str)])
    ELSE LET gene_symbol == <<upper_char(genes_str[i])>>
         IN  IF gene_symbol \in seen_genes
             THEN Raised(self, "ValueError", "RepeatedGene")
             ELSE IF gene_symbol \notin DOMAIN genes_dict
             THEN Raised(self, "ValueError", "UnknownGene")
             ELSE initialize_loop(
                      [self EXCEPT !.gene_structure = Append(@, genes_dict[gene_symbol])],
                      genes_str, genes_dict, seen_genes \cup {gene_symbol}, i + 2)

\* initialize_structure without the reset of gene_structure (main.py:75)
initialize_structure_m(self, genes_str, genes_dict) ==
    initialize_loop(self, genes_str, genes_dict, {}, 1)

\* SimulationGroup.initialize_structure
initialize_structure(self, genes_str, genes_dict) ==
    initialize_loop([self EXCEPT !.gene_structure = <<>>], genes_str, genes_dict, {}, 1)

\* the condition under which add_organism initializes the structure
needs_structure(self) == self.current_generation = <<>>

\* SimulationGroup.add_organism
add_organism(self, genes_str, genes_dict) ==
    LET init == IF needs_structure(self)
                THEN initialize_structure(self, genes_str, genes_dict)
                ELSE Returned(self)
        self1 == init.val
        valid == validate(genes_str, genes_dict)
    IN  IF init.exc # "none" THEN init
        ELSE IF valid # "ok" THEN Raised(self1, "ValueError", valid)
        ELSE IF Len(genes_str) # self1.gene_length
        THEN Raised(self1, "ValueError", "LengthMismatch")
        ELSE Returned([self1 EXCEPT !.current_generation = Append(@, genes_str)])

\* SimulationGroup.set_experiment_mode
group_set_experiment_mode(self, mode) ==
    IF mode \notin {M_random, M_cross}
    THEN Raised(self, "ValueError", "InvalidMode")
    ELSE Returned([self EXCEPT !.experiment_mode = mode])

\* the KeyError get_statistics raises on a genotype with a locus whose first
\* character names no gene
get_statistics_raises(self, genes_dict) ==
    \E n \in DOMAIN self.current_generation :
        LET geno == self.current_generation[n]
        IN  \E i \in DOMAIN geno :
                i % 2 = 1 /\ <<upper_char(geno[i])>> \notin DOMAIN genes_dict

\* the traits of geno, locus after locus (the key of stats['phenotypes'])
phenotype_of(geno, genes_dict) ==
    [k \in 1..((Len(geno) + 1) \div 2) |->
        get_phenotype(genes_dict[<<upper_char(geno[2 * k - 1])>>],
                      SubSeq(geno, 2 * k - 1, Min(2 * k, Len(geno))))]

\* count / total if total > 0 else 0, as the fraction it is the quotient of
ratio(n, total) == IF total > 0 THEN [num |-> n, den |-> total] ELSE [num |-> 0, den |-> 1]

\* stats['total'] as the number of distinct genotypes
stats_total_m(self) == Cardinality({self.current_generation[i] : i \in DOMAIN self.current_generation})

\* stats['total']
stats_total(self) == Len(self.current_generation)

\* SimulationGroup.get_statistics: the group as it leaves it, and the stats
\* returned (without the details)
get_statistics(self, genes_dict) ==
    IF get_statistics_raises(self, genes_dict)
    THEN [val |-> self, exc |-> "KeyError", kind |-> "KeyError", stats |-> None]
    ELSE LET gen == self.current_generation
             total == stats_total(self)
             genos == {gen[i] : i \in DOMAIN gen}
             phenos == {phenotype_of(g, genes_dict) : g \in genos}
             members(p) == {i \in DOMAIN gen : phenotype_of(gen[i], genes_dict) = p}
         IN  [val |-> self, exc |-> "none", kind |-> "none",
              stats |->
                  [total |-> total,
                   genotypes |-> [g \in genos |->
                       [count |-> count(gen, g), ratio |-> ratio(count(gen, g), total)]],
                   phenotypes |-> [p \in phenos |->
                       [count |-> Cardinality(members(p)),
                        ratio |-> ratio(Cardinality(members(p)), total),
                        genotypes |-> {gen[i] : i \in members(p)}]]]]

\* list with its first occurrence of x removed
RECURSIVE remove_first(_, _)
remove_first(list, x) ==
    IF list = <<>> THEN <<>>
    ELSE IF Head(list) = x THEN Tail(list)
    ELSE <<Head(list)>> \o remove_first(Tail(list), x)

\* random.shuffle(list) followed by list[:k]: every arrangement of k of the
\* list's elements (of all of them when it has fewer)
RECURSIVE shuffled_prefix(_, _)
shuffled_prefix(list, k) ==
    IF k <= 0 \/ list = <<>> THEN {<<>>}
    ELSE UNION {{<<x>> \o rest : rest \in shuffled_prefix(remove_first(list, x), k - 1)} :
                   x \in {list[i] : i \in DOMAIN list}}

\* sorted([a, b], key=lambda x: x == gene.recessive): Python's sort is stable
sorted_alleles(a, b, gene) ==
    IF a = gene.recessive /\ b # gene.recessive THEN <<b, a>> ELSE <<a, b>>

\* the first loop of _create_child from index i on: the gametes drawn
RECURSIVE draw_gametes(_, _, _, _)
draw_gametes(p1, p2, genes_dict, i) ==
    IF i > Len(p1) THEN {Returned(<<>>)}
    ELSE IF <<upper_char(p1[i])>> \notin DOMAIN genes_dict
    THEN {Raised(None, "KeyError", "KeyError")}
    ELSE IF i + 1 > Len(p1) \/ i + 1 > Len(p2)
    THEN {Raised(None, "IndexError", "IndexError")}
    ELSE LET rest == draw_gametes(p1, p2, genes_dict, i + 2)
         IN  {IF r.exc = "none" THEN Returned(<<gamete1, gamete2>> \o r.val) ELSE r :
                 gamete1 \in {p1[i], p1[i + 1]},
                 gamete2 \in {p2[i], p2[i + 1]},
                 r \in rest}

\* the second loop of _create_child from index i on
RECURSIVE sort_loci(_, _, _)
sort_loci(child_genes, genes_dict, i) ==
    IF i > Len(child_genes) THEN Returned(<<>>)
    ELSE LET gene_symbol == <<upper_char(child_genes[i])>>
         IN  IF gene_symbol \notin DOMAIN genes_dict
             THEN Raised(None, "KeyError", "KeyError")
             ELSE LET alleles == sorted_alleles(child_genes[i], child_genes[i + 1],
                                                genes_dict[gene_symbol])
                      rest == sort_loci(child_genes, genes_dict, i + 2)
                  IN  IF rest.exc # "none" THEN rest
                      ELSE Returned(alleles \o rest.val)

\* SimulationGroup._create_child: every child it can return, and the
\* exceptions it can raise
_create_child(p1, p2, genes_dict) ==
    {IF r.exc = "none" THEN sort_loci(r.val, genes_dict, 1) ELSE r :
        r \in draw_gametes(p1, p2, genes_dict, 1)}

\* the keys of parent_groups: the distinct genotypes in order of appearance
RECURSIVE distinct_keys(_)
distinct_keys(parents) ==
    IF parents = <<>> THEN <<>>
    ELSE <<Head(parents)>> \o distinct_keys(filter_out(Tail(parents), Head(parents)))

\* n copies of x
repeat(x, n) == [i \in 1..n |-> x]

\* the pairs the inner loop adds for keys[i]: zip with each later group
RECURSIVE zip_pairs(_, _, _, _)
zip_pairs(parents, keys, i, j) ==
    IF j > Len(keys) THEN <<>>
    ELSE repeat(<<keys[i], keys[j]>>,
                Min(count(parents, keys[i]), count(parents, keys[j])))
         \o zip_pairs(parents, keys, i, j + 1)

\* the pair list of cross mode without the pairs within a genotype
RECURSIVE cross_pairs_m(_, _, _)
cross_pairs_m(parents, keys, i) ==
    IF i > Len(keys) THEN <<>>
    ELSE zip_pairs(parents, keys, i, i + 1) \o cross_pairs_m(parents, keys, i + 1)

\* the pair list of cross mode, built from keys[i] on
RECURSIVE cross_pairs(_, _, _)
cross_pairs(parents, keys, i) ==
    IF i > Len(keys) THEN <<>>
    ELSE zip_pairs(parents, keys, i, i + 1)
         \o repeat(<<keys[i], keys[i]>>, count(parents, keys[i]) \div 2)
         \o cross_pairs(parents, keys, i + 1)

\* the pair list of random mode from a shuffled parent list
random_pairs(shuffled) ==
    [k \in 1..(Len(shuffled) \div 2) |-> <<shuffled[2 * k - 1], shuffled[2 * k]>>]

\* the number of pairs, rounded up
pairs_kept_m(n) == (n + 1) \div 2

\* the number of pairs bred out of n parents
pairs_kept(n) == n \div 2

\* the pair lists breed may go through
breed_pairings(self) ==
    LET parents == self.current_generation
    IN  IF self.experiment_mode = M_cross
        THEN shuffled_prefix(cross_pairs(parents, distinct_keys(parents), 1),
                             pairs_kept(Len(parents)))
        ELSE {random_pairs(s) : s \in shuffled_prefix(parents, pairs_kept(Len(parents)) * 2)}

\* the children of pairs[k..]: the lists breed can build, and the exceptions
\* _create_child can end it with
RECURSIVE breed_pairs(_, _, _)
breed_pairs(pairs, genes_dict, k) ==
    IF k > Len(pairs) THEN {Returned(<<>>)}
    ELSE LET first == _create_child(pairs[k][1], pairs[k][2], genes_dict)
         IN  {r \in first : r.exc # "none"}
             \cup {IF r.exc = "none" THEN Returned(<<c.val>> \o r.val) ELSE r :
                      c \in {f \in first : f.exc = "none"},
                      r \in breed_pairs(pairs, genes_dict, k + 1)}

\* the group after a breed that keeps the last record only
bred_m(self, next_gen) ==
    [self EXCEPT !.breed_history = <<[parent_count |-> Len(self.current_generation),
                                      child_count |-> Len(next_gen)]>>,
                 !.current_generation = next_gen]

\* the group after a breed that built next_gen
bred(self, next_gen) ==
    [self EXCEPT !.breed_history = Append(@, [parent_count |-> Len(self.current_generation),
                                              child_count |-> Len(next_gen)]),
                 !.current_generation = next_gen]

\* the test of breed with one parent let through
too_few_m(self) == Len(self.current_generation) < 1

\* the test breed makes before anything else
too_few(self) == Len(self.current_generation) < 2

\* SimulationGroup.breed: the set of its results
breed(self, genes_dict) ==
    IF too_few(self)
    THEN {Raised(self, "ValueError", "InsufficientPopulation")}
    ELSE {IF r.exc = "none" THEN Returned(bred(self, r.val)) ELSE Raised(self, r.exc, r.kind) :
             r \in UNION {breed_pairs(pairs, genes_dict, 1) : pairs \in breed_pairings(self)}}

-----------------------------------------------------------------------------
(* GeneticSimulationSystem                                                 *)

\* the words of the lines tried: group names, trait labels and genotypes
G == <<"G">>
X == <<"X">>
Tall == <<"t", "a", "l", "l">>
Short == <<"s", "h", "o", "r", "t">>
Aa == <<"A", "a">>
aa == <<"a", "a">>
aA == <<"a", "A">>
Bb == <<"B", "b">>
AaAa == <<"A", "a", "A", "a">>
AaBb == <<"A", "a", "B", "b">>

K_help == <<"/", "h", "e", "l", "p">>
K_add == <<"/", "a", "d", "d">>
K_delete == <<"/", "d", "e", "l", "e", "t", "e">>
K_create == <<"/", "c", "r", "e", "a", "t", "e">>
K_read == <<"/", "r", "e", "a", "d">>
K_save == <<"/", "s", "a", "v", "e">>
K_list == <<"/", "l", "i", "s", "t">>
K_show == <<"/", "s", "h", "o", "w">>
K_run == <<"/", "r", "u", "n">>
K_write == <<"/", "w", "r", "i", "t", "e">>
K_change == <<"/", "c", "h", "a", "n", "g", "e">>
K_random == <<"/", "r", "a", "n", "d", "o", "m">>
K_mode == <<"/", "m", "o", "d", "e">>
K_runs == <<"/", "r", "u", "n", "s">>
K_load == <<"/", "l", "o", "a", "d">>
A_add == <<"a", "d", "d">>
A_del == <<"d", "e", "l">>

\* GeneticSimulationSystem.__init__
GeneticSimulationSystem ==
    [genes |-> <<>>, groups |-> <<>>, current_group |-> None]

\* d with d[k] = v, as the assignment d[k] = v of Python
dict_set(d, k, v) == [x \in DOMAIN d \cup {k} |-> IF x = k THEN v ELSE d[x]]

\* args[1:] of a list
rest_of(parts) == SubSeq(parts, 2, Len(parts))

\* add_gene without the test of the registered symbol (main.py:401-402)
add_gene_m(self, args) ==
    IF Len(args) # 4 THEN Raised(self, "ValueError", "BadArgumentCount")
    ELSE LET new_gene == Gene(args[1], args[2], args[3], args[4])
         IN  IF new_gene.exc # "none"
             THEN Raised(self, new_gene.exc, new_gene.kind)
             ELSE Returned([self EXCEPT !.genes = dict_set(@, upper(args[1]), new_gene.val)])

\* add_gene storing the gene over the one registered
add_gene_over_m(self, args) ==
    IF Len(args) # 4 THEN Raised(self, "ValueError", "BadArgumentCount")
    ELSE LET gene_symbol == upper(args[1])
             new_gene == Gene(args[1], args[2], args[3], args[4])
         IN  IF new_gene.exc # "none"
             THEN Raised(self, new_gene.exc, new_gene.kind)
             ELSE IF gene_symbol \in DOMAIN self.genes
             THEN Raised([self EXCEPT !.genes = dict_set(@, gene_symbol, new_gene.val)],
                         "ValueError", "DuplicateGene")
             ELSE Returned([self EXCEPT !.genes = dict_set(@, gene_symbol, new_gene.val)])

\* GeneticSimulationSystem.add_gene
add_gene(self, args) ==
    IF Len(args) # 4 THEN Raised(self, "ValueError", "BadArgumentCount")
    ELSE LET gene_symbol == upper(args[1])
             new_gene == Gene(args[1], args[2], args[3], args[4])
         IN  IF gene_symbol \in DOMAIN self.genes
             THEN Raised(self, "ValueError", "DuplicateGene")
             ELSE IF new_gene.exc # "none"
             THEN Raised(self, new_gene.exc, new_gene.kind)
             ELSE Returned([self EXCEPT !.genes = dict_set(@, gene_symbol, new_gene.val)])

\* create_group without the test for a name in use
create_group_m(self, args) ==
    IF Len(args) < 1 THEN Raised(self, "ValueError", "BadArgumentCount")
    ELSE Returned([self EXCEPT !.groups = dict_set(@, args[1], SimulationGroup),
                               !.current_group = args[1]])

\* GeneticSimulationSystem.create_group
create_group(self, args) ==
    IF Len(args) < 1 THEN Raised(self, "ValueError", "BadArgumentCount")
    ELSE IF args[1] \in DOMAIN self.groups
    THEN Raised(self, "ValueError", "GroupExists")
    ELSE Returned([self EXCEPT !.groups = dict_set(@, args[1], SimulationGroup),
                               !.current_group = args[1]])

\* read_group without the test of the name
read_group_m(self, args) ==
    IF Len(args) < 1 THEN Raised(self, "ValueError", "BadArgumentCount")
    ELSE Returned([self EXCEPT !.current_group = args[1]])

\* GeneticSimulationSystem.read_group
read_group(self, args) ==
    IF Len(args) < 1 THEN Raised(self, "ValueError", "BadArgumentCount")
    ELSE IF args[1] \notin DOMAIN self.groups
    THEN Raised(self, "ValueError", "UnknownGroup")
    ELSE Returned([self EXCEPT !.current_group = args[1]])

\* GeneticSimulationSystem.list_groups
list_groups(self, args) ==
    IF args # <<>> /\ args[1] \notin DOMAIN self.groups
    THEN Raised(self, "ValueError", "UnknownGroup")
    ELSE Returned(self)

\* GeneticSimulationSystem.show_group
show_group(self, args) ==
    IF args = <<>> THEN Raised(self, "ValueError", "BadArgumentCount")
    ELSE IF args[1] \notin DOMAIN self.groups
    THEN Raised(self, "ValueError", "UnknownGroup")
    ELSE IF get_statistics_raises(self.groups[args[1]], self.genes)
    THEN Raised(self, "KeyError", "KeyError")
    ELSE Returned(self)

\* set_experiment_mode storing whatever mode it is given
set_experiment_mode_m(self, args) ==
    IF Len(args) < 2 THEN Raised(self, "ValueError", "BadArgumentCount")
    ELSE IF args[1] \notin DOMAIN self.groups
    THEN Raised(self, "ValueError", "UnknownGroup")
    ELSE Returned([self EXCEPT !.groups[args[1]].experiment_mode = args[2]])

\* GeneticSimulationSystem.set_experiment_mode
set_experiment_mode(self, args) ==
    IF Len(args) < 2 THEN Raised(self, "ValueError", "BadArgumentCount")
    ELSE IF args[1] \notin DOMAIN self.groups
    THEN Raised(self, "ValueError", "UnknownGroup")
    ELSE IF args[2] \notin {M_cross, M_random}
    THEN Raised(self, "ValueError", "InvalidMode")
    ELSE LET r == group_set_experiment_mode(self.groups[args[1]], args[2])
         IN  [r EXCEPT !.val = [self EXCEPT !.groups[args[1]] = r.val]]

\* run_simulation breeding the current group whenever there is one
run_simulation_m(self, args) ==
    LET group_name == IF self.current_group # None THEN self.current_group ELSE args[1]
    IN  IF Len(args) < 1 /\ self.current_group = None
        THEN {Raised(self, "ValueError", "NoCurrentGroup")}
        ELSE IF group_name \notin DOMAIN self.groups
        THEN {Raised(self, "ValueError", "UnknownGroup")}
        ELSE {LET after == [self EXCEPT !.groups[group_name] = r.val]
              IN  IF r.exc = "ValueError" THEN [val |-> after, exc |-> "none", kind |-> r.kind]
                  ELSE IF r.exc # "none" THEN Raised(after, r.exc, r.kind)
                  ELSE Returned(after) :
                 r \in breed(self.groups[group_name], self.genes)}

\* GeneticSimulationSystem.run_simulation: the ValueError of breed is caught
\* and printed here (its kind is kept), any other exception goes on, and so
\* does the KeyError of get_statistics, raised after the group has changed
run_simulation(self, args) ==
    LET group_name == IF Len(args) < 1 THEN self.current_group ELSE args[1]
    IN  IF Len(args) < 1 /\ self.current_group = None
        THEN {Raised(self, "ValueError", "NoCurrentGroup")}
        ELSE IF group_name \notin DOMAIN self.groups
        THEN {Raised(self, "ValueError", "UnknownGroup")}
        ELSE {LET after == [self EXCEPT !.groups[group_name] = r.val]
              IN  IF r.exc = "ValueError" THEN [val |-> after, exc |-> "none", kind |-> r.kind]
                  ELSE IF r.exc # "none" THEN Raised(after, r.exc, r.kind)
                  ELSE IF get_statistics_raises(r.val, self.genes)
                  THEN Raised(after, "KeyError", "KeyError")
                  ELSE Returned(after) :
                 r \in breed(self.groups[group_name], self.genes)}

\* the loop of change_composition's add, left after its first pass
add_loop_m(group, genotype, genes_dict, n) ==
    IF n <= 0 THEN Returned(group)
    ELSE add_organism(group, genotype, genes_dict)

\* the loop of change_composition's add, n organisms to go
RECURSIVE add_loop(_, _, _, _)
add_loop(group, genotype, genes_dict, n) ==
    IF n <= 0 THEN Returned(group)
    ELSE LET r == add_organism(group, genotype, genes_dict)
         IN  IF r.exc # "none" THEN r
             ELSE add_loop(r.val, genotype, genes_dict, n - 1)

\* the test of the copies counted, left out
insufficient_m(current_count, amount) == FALSE

\* the test change_composition's del makes on the copies it counted
insufficient(current_count, amount) == current_count < amount

\* the list change_composition's del leaves
deleted(current_generation, genotype, amount) ==
    slice_to(filter_out(current_generation, genotype), Len(current_generation) - amount)

\* GeneticSimulationSystem.change_composition
change_composition(self, args) ==
    IF Len(args) < 4 THEN Raised(self, "ValueError", "BadArgumentCount")
    ELSE IF ~is_int(args[4]) THEN Raised(self, "ValueError", "BadArgumentType")
    ELSE LET group_name == args[1]
             genotype == args[2]
             operation == args[3]
             amount == int(args[4])
         IN  IF group_name \notin DOMAIN self.groups
             THEN Raised(self, "ValueError", "UnknownGroup")
             ELSE LET group == self.groups[group_name]
                      valid == validate(genotype, self.genes)
                  IN  IF valid # "ok" THEN Raised(self, "ValueError", valid)
                      ELSE IF group.gene_length > 0 /\ Len(genotype) # group.gene_length
                      THEN Raised(self, "ValueError", "LengthMismatch")
                      ELSE IF operation = A_add
                      THEN LET r == add_loop(group, genotype, self.genes, amount)
                           IN  [r EXCEPT !.val = [self EXCEPT !.groups[group_name] = r.val]]
                      ELSE IF operation = A_del
                      THEN IF insufficient(count(group.current_generation, genotype), amount)
                           THEN Raised(self, "ValueError", "InsufficientQuantity")
                           ELSE Returned([self EXCEPT
                                    !.groups[group_name].current_generation =
                                        deleted(@, genotype, amount)])
                      ELSE Raised(self, "ValueError", "BadOperation")

\* sorted(pair, key=lambda x: x.isupper(), reverse=True): stable
sorted_pair(a, b) == IF isupper(b) /\ ~isupper(a) THEN <<b, a>> ELSE <<a, b>>

\* the loci one pass of random_generate's inner loop can build: a gene, two
\* draws from its alleles, sorted
random_loci(genes_dict) ==
    UNION {{sorted_pair(x, y) : x, y \in {genes_dict[g].dominant, genes_dict[g].recessive}} :
              g \in DOMAIN genes_dict}

\* the genotypes the inner loop of random_generate can build over n loci
RECURSIVE random_genotypes(_, _)
random_genotypes(genes_dict, n) ==
    IF n <= 0 THEN {<<>>}
    ELSE {pair \o rest : pair \in random_loci(genes_dict),
                         rest \in random_genotypes(genes_dict, n - 1)}

\* the outer loop of random_generate, n organisms to go
RECURSIVE random_loop(_, _, _, _)
random_loop(group, genes_dict, length, n) ==
    IF n <= 0 THEN {Returned(group)}
    ELSE UNION {LET r == add_organism(group, genotype, genes_dict)
                IN  IF r.exc # "none" THEN {r}
                    ELSE random_loop(r.val, genes_dict, length, n - 1) :
                   genotype \in random_genotypes(genes_dict, length \div 2)}

\* GeneticSimulationSystem.random_generate
random_generate(self, args) ==
    IF Len(args) < 3 THEN {Raised(self, "ValueError", "BadArgumentCount")}
    ELSE IF ~is_int(args[2]) \/ ~is_int(args[3])
    THEN {Raised(self, "ValueError", "BadArgumentType")}
    ELSE LET group_name == args[1]
             amount == int(args[2])
             length == int(args[3])
         IN  IF group_name \notin DOMAIN self.groups
             THEN {Raised(self, "ValueError", "UnknownGroup")}
             ELSE IF length % 2 # 0
             THEN {Raised(self, "ValueError", "InvalidLength")}
             ELSE IF DOMAIN self.genes = {}
             THEN {Raised(self, "ValueError", "NoGenesDefined")}
             ELSE {[r EXCEPT !.val = [self EXCEPT !.groups[group_name] = r.val]] :
                      r \in random_loop(self.groups[group_name], self.genes, length, amount)}

\* a handler of process_command that catches ValueError only
process_catches_m(exc) == exc = "ValueError"

\* the exception classes "except Exception" of process_command catches
process_catches(exc) == exc \in ExceptionClasses

\* what process_command makes of a handler's result: the state, the exception
\* that leaves process_command ("none" when it returns) and the kinds of the
\* failure messages printed
handled(r) ==
    IF r.exc = "none"
    THEN [val |-> r.val, escaped |-> "none",
          log |-> IF r.kind = "none" THEN <<>> ELSE <<r.kind>>]
    ELSE IF process_catches(r.exc)
    THEN [val |-> r.val, escaped |-> "none", log |-> <<r.kind>>]
    ELSE [val |-> r.val, escaped |-> r.exc, log |-> <<>>]

RECURSIVE process_command(_, _)

\* the loop of run_for_times that gives up at the first run that fails
RECURSIVE run_loop_m(_, _)
run_loop_m(self, n) ==
    IF n <= 0 THEN {[val |-> self, escaped |-> "none", log |-> <<>>]}
    ELSE UNION {IF r.escaped # "none" \/ r.log # <<>> THEN {r}
                ELSE run_loop_m(r.val, n - 1) :
                   r \in process_command(self, <<K_run>>)}

\* the loop of run_for_times, n runs to go; system is the program's own
\* instance (main.py:603)
RECURSIVE run_loop(_, _)
run_loop(self, n) ==
    IF n <= 0 THEN {[val |-> self, escaped |-> "none", log |-> <<>>]}
    ELSE UNION {IF r.escaped # "none" THEN {r}
                ELSE {[q EXCEPT !.log = r.log \o @] : q \in run_loop(r.val, n - 1)} :
                   r \in process_command(self, <<K_run>>)}

\* GeneticSimulationSystem.run_for_times, as seen by process_command
run_for_times(self, args) ==
    IF args = <<>> \/ ~is_int(args[1])
    THEN {[val |-> self, escaped |-> "none", log |-> <<"BadArgumentType">>]}
    ELSE {IF r.escaped # "none" /\ process_catches(r.escaped)
          THEN [r EXCEPT !.escaped = "none", !.log = Append(@, r.escaped)]
          ELSE r :
             r \in run_loop(self, int(args[1]))}

\* the lines the batch files are made of, by the character that names each:
\* a blank line, a comment, lines that succeed and lines that fail
BatchLine(c) ==
    CASE c = "0" -> <<>>
      [] c = "1" -> <<<<"#">>, G>>
      [] c = "2" -> <<K_add, <<"A">>, <<"a">>, Tall, Short>>
      [] c = "3" -> <<K_create, G>>
      [] c = "4" -> <<K_change, G, Aa, A_add, <<"1">>>>
      [] c = "5" -> <<K_change, G, aA, A_add, <<"1">>>>
      [] c = "6" -> <<K_run, G>>
      [] OTHER -> <<<<"#", c>>>>

MaxLines == 2

\* the batch files of the working directory: one for every list of up to
\* MaxLines such lines, named by the characters of its lines
BatchNames == UNION {[1..n -> {"0", "1", "3", "4", "5", "6"}] : n \in 1..MaxLines}

\* the instruction files of the working directory: the tokens of their lines
Script == <<"s">>
Files ==
    [name \in BatchNames \cup {Script} |->
        IF name = Script
        THEN <<<<>>,
               <<<<"#">>, G>>,
               <<K_add, <<"A">>, <<"a">>, Tall, Short>>,
               <<K_create, G>>,
               <<K_change, G, aA, A_add, <<"1">>>>,
               <<K_change, G, Aa, A_add, <<"1">>>>>>
        ELSE [i \in 1..Len(name) |-> BatchLine(name[i])]]

\* a line load_commands skips: blank, or a comment
skipped(line) == line = <<>> \/ line[1][1] = "#"

\* the loop of load_commands that gives up at the first line that fails
RECURSIVE load_loop_m(_, _, _)
load_loop_m(self, lines, i) ==
    IF i > Len(lines)
    THEN {[val |-> self, escaped |-> "none", log |-> <<>>, line_num |-> i - 1]}
    ELSE IF skipped(lines[i]) THEN load_loop_m(self, lines, i + 1)
    ELSE UNION {IF r.log # <<>>
                THEN {[val |-> r.val, escaped |-> "none", log |-> r.log, line_num |-> i]}
                ELSE load_loop_m(r.val, lines, i + 1) :
                   r \in process_command(self, lines[i])}

\* the loop of load_commands from line i on: a blank line and a comment are
\* skipped, and a line that fails is reported and the loop goes on; line_num
\* is the number of the last line read, which the closing message prints
RECURSIVE load_loop(_, _, _)
load_loop(self, lines, i) ==
    IF i > Len(lines)
    THEN {[val |-> self, escaped |-> "none", log |-> <<>>, line_num |-> i - 1]}
    ELSE IF skipped(lines[i]) THEN load_loop(self, lines, i + 1)
    ELSE UNION {{[q EXCEPT !.log = r.log
                                      \o (IF r.escaped # "none" THEN <<"LineFailed">> ELSE <<>>)
                                      \o @] :
                    q \in load_loop(r.val, lines, i + 1)} :
                   r \in process_command(self, lines[i])}

\* GeneticSimulationSystem.load_commands, as seen by process_command
load_commands(self, args) ==
    IF Len(args) < 1 THEN {handled(Raised(self, "ValueError", "BadArgumentCount"))}
    ELSE IF args[1] \notin DOMAIN Files
    THEN {handled(Raised(self, "ValueError", "FileNotFound"))}
    ELSE load_loop(self, Files[args[1]], 1)

\* GeneticSimulationSystem.process_command on the tokens of a stripped line
process_command(self, parts) ==
    IF parts = <<>> THEN {[val |-> self, escaped |-> "none", log |-> <<>>]}
    ELSE LET instruction == lower(parts[1])
             args == rest_of(parts)
         IN  CASE instruction = K_help -> {handled(Returned(self))}
               [] instruction = K_add -> {handled(add_gene(self, args))}
               [] instruction = K_delete ->
                      {handled(Raised(self, "AttributeError", "AttributeError"))}
               [] instruction = K_create -> {handled(create_group(self, args))}
               [] instruction = K_read -> {handled(read_group(self, args))}
               [] instruction = K_save ->
                      {handled(Raised(self, "AttributeError", "AttributeError"))}
               [] instruction = K_list -> {handled(list_groups(self, args))}
               [] instruction = K_show -> {handled(show_group(self, args))}
               [] instruction = K_run -> {handled(r) : r \in run_simulation(self, args)}
               [] instruction = K_write -> {handled(r) : r \in run_simulation(self, args)}
               [] instruction = K_change -> {handled(change_composition(self, args))}
               [] instruction = K_random -> {handled(r) : r \in random_generate(self, args)}
               [] instruction = K_mode -> {handled(set_experiment_mode(self, args))}
               [] instruction = K_load -> load_commands(self, args)
               [] instruction = K_runs -> run_for_times(self, args)
               [] OTHER -> {[val |-> self, escaped |-> "none", log |-> <<"UnknownInstruction">>]}

-----------------------------------------------------------------------------
(* The command interface as a state machine                                *)

MaxPop == 3
MaxHist == 1

St == [genes |-> genes, groups |-> groups, current_group |-> current_group]

NoReport == [cmd |-> <<>>, log |-> <<>>, escaped |-> "none"]

Init ==
    /\ genes = GeneticSimulationSystem.genes
    /\ groups = GeneticSimulationSystem.groups
    /\ current_group = GeneticSimulationSystem.current_group
    /\ report = NoReport
    /\ probe = <<>>

\* the command loop (main.py:607-613) reads a line when the report of the
\* line before it has been shown
Prompt == report = NoReport

\* the bounds of a model: no group is grown past pop organisms nor bred
\* more than hist times
Bounded(st, pop, hist) ==
    \A name \in DOMAIN st.groups :
        /\ Len(st.groups[name].current_generation) <= pop
        /\ Len(st.groups[name].breed_history) <= hist

\* one call of process_command from the command loop
Step(parts, pop, hist) ==
    /\ Prompt
    /\ \E r \in process_command(St, parts) :
        /\ Bounded(r.val, pop, hist)
        /\ genes' = r.val.genes
        /\ groups' = r.val.groups
        /\ current_group' = r.val.current_group
        /\ report' = [cmd |-> parts, log |-> r.log, escaped |-> r.escaped]
        /\ UNCHANGED probe

Process(parts) == Step(parts, MaxPop, MaxHist)

\* the command loop goes back to its prompt
NextLine ==
    /\ ~Prompt
    /\ report' = NoReport
    /\ UNCHANGED <<genes, groups, current_group, probe>>

\* the lines tried: every instruction, with arguments that succeed and
\* arguments that fail each of its checks
AddGene ==
    \E a \in {<<<<"A">>, <<"a">>>>, <<<<"a">>, <<"A">>>>, <<<<"A">>, <<"A">>>>,
              <<<<"A">>, <<"b">>>>, <<<<"A", "B">>, <<"a">>>>, <<<<"A">>, <<"a", "b">>>>} :
        \/ Process(<<K_add, a[1], a[2], Tall, Short>>)
        \/ Process(<<K_add, a[1], a[2]>>)
CreateGroup == \E args \in {<<G>>, <<>>}, k \in {K_create, upper(K_create)} : Process(<<k>> \o args)
ReadGroup == \E args \in {<<G>>, <<X>>, <<>>} : Process(<<K_read>> \o args)
ChangeAdd ==
    \E name \in {G, X}, g \in {Aa, aa, aA, <<"A">>, AaAa}, k \in {<<"0">>, <<"1">>, <<"2">>, <<"x">>} :
        Process(<<K_change, name, g, A_add, k>>)
ChangeDel ==
    \E name \in {G}, g \in {Aa, aa, aA, AaAa}, k \in {<<"0">>, <<"1">>, <<"2">>} :
        Process(<<K_change, name, g, A_del, k>>)
ChangeOther == \E args \in {<<G, Aa, <<"m", "u", "l">>, <<"1">>>>, <<G, Aa, A_add>>} : Process(<<K_change>> \o args)
RunSimulation == \E args \in {<<>>, <<G>>, <<X>>}, k \in {K_run, K_write} : Process(<<k>> \o args)
RunForTimes ==
    \E args \in {<<<<"2">>>>, <<<<"3">>>>, <<<<"x">>>>, <<>>} : Process(<<K_runs>> \o args)
SetMode ==
    \E args \in {<<G, M_cross>>, <<G, M_random>>, <<G, <<"x">>>>, <<X, M_cross>>, <<G>>} :
        Process(<<K_mode>> \o args)
RandomGenerate ==
    \E args \in {<<G, <<"1">>, <<"2">>>>, <<G, <<"1">>, <<"1">>>>, <<X, <<"1">>, <<"2">>>>,
                 <<G, <<"x">>, <<"2">>>>, <<G, <<"1">>>>} :
        Process(<<K_random>> \o args)
Query == \E parts \in {<<K_help>>, <<K_list>>, <<K_list, G>>, <<K_list, X>>, <<K_show, G>>, <<K_show>>} : Process(parts)
Unimplemented == \E k \in {K_delete, K_save}, name \in {G, <<"A">>} : Process(<<k, name>>)
Unknown == Process(<<<<"/", "f", "o", "o">>>>)
LoadCommands == \E args \in {<<Script>>, <<X>>, <<>>} : Process(<<K_load>> \o args)
EmptyLine == Process(<<>>)

Next ==
    \/ AddGene
    \/ CreateGroup
    \/ ReadGroup
    \/ ChangeAdd
    \/ ChangeDel
    \/ ChangeOther
    \/ RunSimulation
    \/ RunForTimes
    \/ SetMode
    \/ RandomGenerate
    \/ Query
    \/ Unimplemented
    \/ Unknown
    \/ LoadCommands
    \/ EmptyLine
    \/ NextLine

Spec == Init /\ [][Next]_vars

-----------------------------------------------------------------------------
(* The command loop on a registry of two genes, without breeding: how a    *)
(* group's structure is set and kept                                       *)

MaxMembers == 1

Red == <<"r", "e", "d">>
White == <<"w", "h", "i", "t", "e">>
AaBbBb == <<"A", "a", "B", "b", "B", "b">>

Fill(parts) == Step(parts, MaxMembers, 0)

DefineGene ==
    \/ Fill(<<K_add, <<"A">>, <<"a">>, Tall, Short>>)
    \/ Fill(<<K_add, <<"B">>, <<"b">>, Red, White>>)
NewGroup == Fill(<<K_create, G>>)
AddMembers ==
    \E g \in {Aa, Bb, AaBb, AaAa, aA, <<"A">>, AaBbBb}, k \in {<<"0">>, <<"1">>} :
        Fill(<<K_change, G, g, A_add, k>>)
DelMembers == \E g \in {Aa, Bb, AaBb} : Fill(<<K_change, G, g, A_del, <<"1">>>>)
RandomMembers == \E length \in {<<"0">>, <<"2">>, <<"4">>} : Fill(<<K_random, G, <<"1">>, length>>)

NextStructure ==
    \/ DefineGene
    \/ NewGroup
    \/ AddMembers
    \/ DelMembers
    \/ RandomMembers
    \/ NextLine

SpecStructure == Init /\ [][NextStructure]_vars

-----------------------------------------------------------------------------
(* Properties of the command interface                                     *)

\* the elements of a list
Range(list) == {list[i] : i \in DOMAIN list}

\* the line the step processed is instruction k with n arguments
Line(k, n) == Len(report'.cmd) = n + 1 /\ lower(report'.cmd[1]) = k

\* the group a /run or /write line breeds
RunTarget(cmd) == IF Len(cmd) < 2 THEN current_group ELSE cmd[2]

\* C2: a /run or /write on a group of fewer than 2 organisms reports
\* InsufficientPopulation and leaves the group (members, structure, mode,
\* history) as it was.
C2_BreedNeedsTwo ==
    [][\A name \in DOMAIN groups :
          (/\ Line(K_run, 0) \/ Line(K_run, 1) \/ Line(K_write, 0) \/ Line(K_write, 1)
           /\ RunTarget(report'.cmd) = name
           /\ Len(groups[name].current_generation) < 2)
          => /\ report'.log = <<"InsufficientPopulation">>
             /\ report'.escaped = "none"
             /\ groups'[name] = groups[name]]_vars

C2_Witness ==
    /\ report.cmd = <<K_run, G>>
    /\ report.log = <<"InsufficientPopulation">>
    /\ G \in DOMAIN groups
    /\ Len(groups[G].current_generation) = 1
    /\ groups[G].experiment_mode = M_cross
    /\ groups[G].breed_history # <<>>

\* the step is a successful /change name g del k with 0 <= k <= count(g)
DelStep(name) ==
    /\ Line(K_change, 4)
    /\ report'.cmd[2] = name
    /\ report'.cmd[4] = A_del
    /\ is_int(report'.cmd[5])
    /\ report'.log = <<>>
    /\ 0 <= int(report'.cmd[5])
    /\ int(report'.cmd[5]) <= count(groups[name].current_generation, report'.cmd[3])

\* C3: a successful /change name g del k with 0 <= k <= count(g) removes
\* exactly k copies of g: count(g) and the population size drop by k and no
\* other genotype's count changes.
C3_DelRemovesExactlyK ==
    [][\A name \in DOMAIN groups :
          LET g == report'.cmd[3]
              k == int(report'.cmd[5])
              before == groups[name].current_generation
              after == groups'[name].current_generation
          IN  DelStep(name)
              => /\ count(after, g) = count(before, g) - k
                 /\ Len(after) = Len(before) - k
                 /\ \A other \in Range(before) \cup Range(after) :
                        other # g => count(after, other) = count(before, other)]_vars

\* the step is a /change name g del k on a group holding fewer than k copies
DelShortStep(name) ==
    /\ Line(K_change, 4)
    /\ report'.cmd[2] = name
    /\ report'.cmd[4] = A_del
    /\ is_int(report'.cmd[5])
    /\ count(groups[name].current_generation, report'.cmd[3]) < int(report'.cmd[5])

Unchanged == genes' = genes /\ groups' = groups /\ current_group' = current_group

\* C4 as stated: /change name g del k on a group holding fewer than k copies
\* of g reports InsufficientQuantity and changes nothing.
C4_AsStated ==
    [][\A name \in DOMAIN groups :
          DelShortStep(name) => report'.log = <<"InsufficientQuantity">> /\ Unchanged]_vars

\* C4 amended: /change name g del k on a group holding fewer than k copies of
\* g changes nothing and reports one failure: the validator's when g does not
\* pass it, LengthMismatch when g has not the group's locked length, and
\* InsufficientQuantity otherwise.
C4_DelShortFails ==
    [][\A name \in DOMAIN groups :
          LET g == report'.cmd[3]
              valid == validate(g, genes)
          IN  DelShortStep(name)
              => /\ Unchanged
                 /\ report'.escaped = "none"
                 /\ report'.log =
                        <<IF valid # "ok" THEN valid
                          ELSE IF groups[name].gene_length > 0 /\ Len(g) # groups[name].gene_length
                          THEN "LengthMismatch"
                          ELSE "InsufficientQuantity">>]_vars

C4_Witness ==
    /\ report.cmd = <<K_change, G, Aa, A_del, <<"2">>>>
    /\ report.log = <<"InsufficientQuantity">>
    /\ G \in DOMAIN groups
    /\ count(groups[G].current_generation, Aa) = 1
    /\ Len(groups[G].current_generation) = 2

\* the gene a successful /add dom rec domTrait recTrait stores
Stored(cmd) ==
    [dominant |-> upper(cmd[2])[1], recessive |-> lower(cmd[3])[1],
     dom_trait |-> cmd[4], rec_trait |-> cmd[5]]

\* what every /add of four arguments does when it fails and when it succeeds
AddOutcome ==
    LET cmd == report'.cmd
    IN  /\ report'.escaped = "none"
        /\ report'.log # <<>> => genes' = genes
        /\ report'.log = <<>>
               => /\ DOMAIN genes' = DOMAIN genes \cup {upper(cmd[2])}
                  /\ upper(cmd[2]) \notin DOMAIN genes
                  /\ genes'[upper(cmd[2])] = Stored(cmd)
                  /\ \A s \in DOMAIN genes : genes'[s] = genes[s]

\* C9 as stated: /add fails with InvalidGene when an allele argument is not
\* one character or the two are equal case-insensitively, and with
\* DuplicateGene when uppercase(dom) is registered; a failure leaves the
\* registry as it was and a success stores exactly one gene under
\* uppercase(dom).
C9_AsStated ==
    [][Line(K_add, 4) =>
          LET cmd == report'.cmd
          IN  /\ (Len(cmd[2]) # 1 \/ Len(cmd[3]) # 1 \/ lower(cmd[2]) = lower(cmd[3]))
                     => report'.log \in {<<"InvalidGene">>, <<"DuplicateGene">>}
              /\ upper(cmd[2]) \in DOMAIN genes => report'.log = <<"DuplicateGene">>
              /\ AddOutcome]_vars

\* C9 amended: /add dom rec domTrait recTrait fails with DuplicateGene when
\* uppercase(dom) is registered; otherwise it fails with InvalidGene when an
\* allele argument is not one character or the two arguments are the same
\* string (compared as written: "A a" is accepted); otherwise it succeeds.  A
\* failure leaves the registry as it was and a success stores exactly one
\* gene, under uppercase(dom).
C9_AddGene ==
    [][Line(K_add, 4) =>
          LET cmd == report'.cmd
          IN  /\ report'.log =
                     IF upper(cmd[2]) \in DOMAIN genes THEN <<"DuplicateGene">>
                     ELSE IF Len(cmd[2]) # 1 \/ Len(cmd[3]) # 1 \/ cmd[2] = cmd[3]
                     THEN <<"InvalidGene">>
                     ELSE <<>>
              /\ AddOutcome]_vars

C9_Witness ==
    /\ report.cmd = <<K_add, <<"A">>, <<"A">>, Tall, Short>>
    /\ report.log = <<"DuplicateGene">>
    /\ DOMAIN genes = {<<"A">>}
    /\ genes[<<"A">>].recessive = "a"

Instructions ==
    {K_help, K_add, K_delete, K_create, K_read, K_save, K_list, K_show, K_run,
     K_write, K_change, K_random, K_load, K_mode, K_runs}

\* C10: process_command returns without raising on every line, and a line
\* with an unknown instruction is reported and changes nothing.
C10_ProcessNeverRaises ==
    [][report'.cmd # <<>> =>
          /\ report'.escaped = "none"
          /\ lower(report'.cmd[1]) \notin Instructions
                 => Unchanged /\ report'.log = <<"UnknownInstruction">>]_vars

C10_Witness ==
    /\ report.cmd = <<K_delete, G>>
    /\ report.log = <<"AttributeError">>
    /\ report.escaped = "none"

-----------------------------------------------------------------------------
(* The command loop on one group of a one-gene registry, filled and bred   *)
(* in both modes                                                           *)

MaxParents == 4
MaxGenerations == 1

AA == <<"A", "A">>

Mate(parts) == Step(parts, MaxParents, MaxGenerations)

BreedSetup ==
    \/ Mate(<<K_add, <<"A">>, <<"a">>, Tall, Short>>)
    \/ Mate(<<K_create, G>>)
BreedFill == \E g \in {AA, Aa, aa}, k \in {<<"1">>, <<"2">>} : Mate(<<K_change, G, g, A_add, k>>)
BreedMode == \E mode \in {M_random, M_cross} : Mate(<<K_mode, G, mode>>)
BreedRun == Mate(<<K_run, G>>) \/ Mate(<<K_write>>)

NextBreed ==
    \/ BreedSetup
    \/ BreedFill
    \/ BreedMode
    \/ BreedRun
    \/ NextLine

SpecBreed == Init /\ [][NextBreed]_vars

\* C1: a /run or /write that succeeds on a group of N >= 2 organisms
\* replaces its members with a new generation of exactly N div 2 members in
\* random mode and of at most N div 2 members in cross mode, and records the
\* two sizes in the history.
C1_BreedSize ==
    [][\A name \in DOMAIN groups :
          LET group == groups[name]
              N == Len(group.current_generation)
              children == Len(groups'[name].current_generation)
          IN  (/\ Line(K_run, 0) \/ Line(K_run, 1) \/ Line(K_write, 0) \/ Line(K_write, 1)
               /\ RunTarget(report'.cmd) = name
               /\ report'.log = <<>>
               /\ N >= 2)
              => /\ group.experiment_mode = M_random => children = N \div 2
                 /\ group.experiment_mode = M_cross => children <= N \div 2
                 /\ children >= 1
                 /\ groups'[name].breed_history =
                        Append(group.breed_history, [parent_count |-> N, child_count |-> children])
                 /\ groups'[name].experiment_mode \in {M_random, M_cross}]_vars

C1_Witness ==
    /\ report.cmd = <<K_run, G>>
    /\ report.log = <<>>
    /\ G \in DOMAIN groups
    /\ groups[G].experiment_mode = M_cross
    /\ Len(groups[G].current_generation) = 2
    /\ groups[G].breed_history = <<[parent_count |-> 4, child_count |-> 2]>>

-----------------------------------------------------------------------------
(* Properties of a group's structure                                       *)

\* the registered genes of the loci of genotype g, in order
LociGenes(g) == [i \in 1..(Len(g) \div 2) |-> genes[upper(<<g[2 * i - 1]>>)]]

\* the step is a /change name g add k with k >= 1
AddStep(name) ==
    /\ Line(K_change, 4)
    /\ report'.cmd[2] = name
    /\ report'.cmd[4] = A_add
    /\ is_int(report'.cmd[5])
    /\ int(report'.cmd[5]) >= 1

\* the group holds the length and the loci of g
Locked(group, g) == group.gene_length = Len(g) /\ group.gene_structure = LociGenes(g)

C6_StructureNeverChanges ==
    [][\A name \in DOMAIN groups :
          (groups[name].gene_length > 0 \/ groups[name].current_generation # <<>>)
          => /\ groups'[name].gene_length = groups[name].gene_length
             /\ groups'[name].gene_structure = groups[name].gene_structure]_vars

-----------------------------------------------------------------------------
(* The validator and child production as functions, applied to the         *)
(* registries /add can build and to the strings over their alleles         *)

MaxLen == 4
MaxLoci == 2

\* the arguments of the /add lines that build the registries
GeneArgs ==
    {<<<<"A">>, <<"a">>, Tall, Short>>, <<<<"B">>, <<"b">>, Red, White>>,
     <<<<"A">>, <<"b">>, Tall, Short>>, <<<<"b">>, <<"a">>, Red, White>>}

\* the registries after no, one and two /add lines
Registries ==
    {GeneticSimulationSystem.genes}
        \cup {add_gene(add_gene(GeneticSimulationSystem, a1).val, a2).val.genes :
                 a1 \in GeneArgs, a2 \in GeneArgs}

Alleles == {"A", "a", "B", "b"}

\* the strings of length n over the alleles
Strings(n) == [1..n -> Alleles]

InitPure(inputs) ==
    /\ genes \in Registries
    /\ groups = GeneticSimulationSystem.groups
    /\ current_group = GeneticSimulationSystem.current_group
    /\ report = NoReport
    /\ probe \in inputs

InitValidate ==
    InitPure({[genes_str |-> str, out |-> <<>>] : str \in UNION {Strings(n) : n \in 0..MaxLen}})

\* GeneComposition(genes_str, genes_dict).validate
Validate ==
    /\ probe.out = <<>>
    /\ probe' = [probe EXCEPT !.out = <<validate(probe.genes_str, genes)>>]
    /\ UNCHANGED <<genes, groups, current_group, report>>

\* the call returns
Return ==
    /\ probe.out # <<>>
    /\ probe' = [probe EXCEPT !.out = <<>>]
    /\ UNCHANGED <<genes, groups, current_group, report>>

NextValidate == Validate \/ Return

SpecValidate == InitValidate /\ [][NextValidate]_vars

\* the checks of locus i of string str, as the validator's contract words them
KnownGene(str, i) == <<upper_char(str[2 * i - 1])>> \in DOMAIN genes
GeneOf(str, i) == genes[<<upper_char(str[2 * i - 1])>>]
OwnAlleles(str, i) ==
    {str[2 * i - 1], str[2 * i]} \subseteq {GeneOf(str, i).dominant, GeneOf(str, i).recessive}
RecessiveFirst(str, i) ==
    str[2 * i - 1] = GeneOf(str, i).recessive /\ str[2 * i] = GeneOf(str, i).dominant
LocusError(str, i) ==
    IF ~KnownGene(str, i) THEN "UnknownGene"
    ELSE IF ~OwnAlleles(str, i) THEN "InvalidAllele"
    ELSE IF RecessiveFirst(str, i) THEN "BadAlleleOrder"
    ELSE "ok"
Offending(str) == {i \in 1..(Len(str) \div 2) : LocusError(str, i) # "ok"}
FirstOffending(str) == CHOOSE i \in Offending(str) : \A j \in Offending(str) : i <= j

\* C8: the validator accepts a string iff its length is even and every locus
\* names a registered gene by its first character's uppercase form, has both
\* characters among that gene's alleles and is not written recessive then
\* dominant; it rejects an odd length with MalformedGenotype and otherwise
\* with the first violated check of the first offending locus; the registry
\* is the same after the call.
C8_Validate ==
    [][(probe.out = <<>> /\ probe'.out # <<>>) =>
          LET str == probe.genes_str
              result == probe'.out[1]
          IN  /\ result = "ok" <=> (Len(str) % 2 = 0 /\ Offending(str) = {})
              /\ Len(str) % 2 = 1 => result = "MalformedGenotype"
              /\ (Len(str) % 2 = 0 /\ Offending(str) # {})
                     => result = LocusError(str, FirstOffending(str))
              /\ genes' = genes]_vars

C8_Witness ==
    /\ probe.genes_str = <<"A", "A", "a", "A">>
    /\ probe.out = <<"BadAlleleOrder">>
    /\ DOMAIN genes = {<<"A">>, <<"B">>}
    /\ genes[<<"A">>].recessive = "a"

\* the pairs of parents: strings the validator accepts, of the same length
\* and with the same gene at every locus
Genotypes(n) == {str \in Strings(2 * n) : validate(str, genes) = "ok"}
Parents ==
    {pair \in UNION {Genotypes(n) \X Genotypes(n) : n \in 1..MaxLoci} :
        \A i \in 1..(Len(pair[1]) \div 2) :
            upper_char(pair[1][2 * i - 1]) = upper_char(pair[2][2 * i - 1])}

InitChild ==
    /\ genes \in Registries
    /\ groups = GeneticSimulationSystem.groups
    /\ current_group = GeneticSimulationSystem.current_group
    /\ report = NoReport
    /\ probe \in {[p1 |-> pair[1], p2 |-> pair[2], out |-> <<>>] : pair \in Parents}

\* SimulationGroup._create_child(p1, p2, genes_dict)
CreateChild ==
    /\ probe.out = <<>>
    /\ \E r \in _create_child(probe.p1, probe.p2, genes) : probe' = [probe EXCEPT !.out = <<r>>]
    /\ UNCHANGED <<genes, groups, current_group, report>>

NextChild == CreateChild \/ Return

SpecChild == InitChild /\ [][NextChild]_vars

\* the two alleles x and y of a locus of gene, written dominant first
DominantFirst(x, y, gene) == IF y = gene.dominant THEN <<y, x>> ELSE <<x, y>>

\* the children of p1 and p2: at every locus one allele of each parent
Children(p1, p2) ==
    {child \in Strings(Len(p1)) :
        \A i \in 1..(Len(p1) \div 2) :
            \E x \in {p1[2 * i - 1], p1[2 * i]}, y \in {p2[2 * i - 1], p2[2 * i]} :
                <<child[2 * i - 1], child[2 * i]>> = DominantFirst(x, y, GeneOf(p1, i))}

\* C7: what child production can return for parents p1 and p2 is exactly the
\* strings that hold, at every locus, one allele of p1 and one allele of p2
\* at that locus, dominant first; it raises nothing.
C7_ChildSet ==
    probe.out # <<>> =>
        /\ probe.out[1] \in {Returned(child) : child \in Children(probe.p1, probe.p2)}
        /\ _create_child(probe.p1, probe.p2, genes)
               = {Returned(child) : child \in Children(probe.p1, probe.p2)}

-----------------------------------------------------------------------------
(* The command loop with batch files: /load of every file of up to         *)
(* MaxLines lines, from the states a few lines lead to                     *)

MaxBatchPop == 2

Batch(parts) == Step(parts, MaxBatchPop, 1)

BatchSetup ==
    \/ Batch(<<K_add, <<"A">>, <<"a">>, Tall, Short>>)
    \/ Batch(<<K_create, G>>)
    \/ Batch(<<K_change, G, Aa, A_add, <<"1">>>>)
    \/ Batch(<<K_change, G, Aa, A_del, <<"1">>>>)

\* /load of a batch file from the command loop; probe keeps the line count
\* of the closing message
LoadBatch ==
    /\ Prompt
    /\ \E name \in BatchNames :
        \E r \in process_command(St, <<K_load, name>>) :
            /\ Bounded(r.val, MaxBatchPop, 1)
            /\ genes' = r.val.genes
            /\ groups' = r.val.groups
            /\ current_group' = r.val.current_group
            /\ report' = [cmd |-> <<K_load, name>>, log |-> r.log, escaped |-> r.escaped]
            /\ probe' = <<r.line_num>>

LoadMissing == Batch(<<K_load, X>>) \/ Batch(<<K_load>>)

NextLoad ==
    \/ BatchSetup
    \/ LoadBatch
    \/ LoadMissing
    \/ NextLine

SpecLoad == Init /\ [][NextLoad]_vars

\* the lines of a file that are neither blank nor comments
Executed(lines) == SelectSeq(lines, LAMBDA line : ~skipped(line))

\* the states, and the failures reported on the way, that issuing lines[i..]
\* one by one to process_command can end in
RECURSIVE Issued(_, _, _, _)
Issued(self, log, lines, i) ==
    IF i > Len(lines) THEN {[val |-> self, log |-> log]}
    ELSE UNION {Issued(r.val, log \o r.log, lines, i + 1) :
                   r \in process_command(self, lines[i])}

\* C11: /load of a file ends, without raising, in a state and with the
\* failure reports that issuing the file's non-blank, non-comment lines one
\* by one, in order, ends in (and every such end is one /load can have: a
\* failing line stops nothing), and the line count of its closing message
\* is the number of lines of the file, skipped ones included.
C11_LoadIsLineByLine ==
    [][(Line(K_load, 1) /\ report'.cmd[2] \in BatchNames) =>
          LET lines == Files[report'.cmd[2]]
              ends == Issued(St, <<>>, Executed(lines), 1)
          IN  /\ report'.escaped = "none"
              /\ [val |-> St', log |-> report'.log] \in ends
              /\ {[val |-> r.val, log |-> r.log] : r \in process_command(St, report'.cmd)} = ends
              /\ probe' = <<Len(lines)>>]_vars

C11_Witness ==
    /\ report.cmd = <<K_load, <<"5", "4">>>>
    /\ report.log = <<"BadAlleleOrder">>
    /\ probe = <<2>>
    /\ G \in DOMAIN groups
    /\ groups[G].current_generation = <<Aa, Aa>>

-----------------------------------------------------------------------------
(* Properties of /runs                                                     *)

\* the step is a /runs n with a number n
RunsStep == Line(K_runs, 1) /\ is_int(report'.cmd[2])

\* the ends of n runs of which none is attempted after one that failed
RECURSIVE Aborting(_, _, _)
Aborting(self, log, n) ==
    IF n <= 0 THEN {[val |-> self, log |-> log]}
    ELSE UNION {IF r.log # <<>> THEN {[val |-> r.val, log |-> log \o r.log]}
                ELSE Aborting(r.val, log, n - 1) :
                   r \in process_command(self, <<K_run>>)}

-----------------------------------------------------------------------------
(* The command loop over two groups, G and H, of one locus A/a *)

MaxGroupPop == 2
MaxGroupRuns == 1
H == <<"H">>

Among(parts) == Step(parts, MaxGroupPop, MaxGroupRuns)
GroupsGene == Among(<<K_add, <<"A">>, <<"a">>, Tall, Short>>)
GroupsCreate == \E name \in {G, H} : Among(<<K_create, name>>)
GroupsRead == \E name \in {G, H, X} : Among(<<K_read, name>>)
GroupsFill == \E name \in {G, H}, k \in {<<"1">>, <<"2">>} : Among(<<K_change, name, Aa, A_add, k>>)
GroupsRun == \E args \in {<<>>, <<G>>, <<H>>, <<X>>} : Among(<<K_run>> \o args)
GroupsMode == \E name \in {G, H} : Among(<<K_mode, name, M_cross>>)
GroupsOther ==
    \E parts \in {<<K_delete, G>>, <<K_save, G>>, <<K_list>>, <<K_show, G>>, <<K_help>>,
                  <<K_runs, <<"1">>>>, <<K_change, G, Aa, A_del, <<"1">>>>,
                  <<<<"/", "f", "o", "o">>>>} :
        Among(parts)

NextGroups ==
    \/ GroupsGene
    \/ GroupsCreate
    \/ GroupsRead
    \/ GroupsFill
    \/ GroupsRun
    \/ GroupsMode
    \/ GroupsOther
    \/ NextLine

SpecGroups == Init /\ [][NextGroups]_vars

\* every group but name is after the step as it was before it
OthersUnchanged(name) ==
    /\ DOMAIN groups' \ {name} = DOMAIN groups \ {name}
    /\ \A other \in DOMAIN groups \ {name} : groups'[other] = groups[other]

\* C13: /create name with a name not in use adds a group of no organisms, no
\* locked structure, mode random and empty history, leaves every other group
\* and the registry alone and makes the new group the current one; /create
\* with a name in use reports GroupExists and leaves the registry, every
\* group (that one included) and the current group as they were.
C13_Create ==
    [][Line(K_create, 1) =>
          LET name == report'.cmd[2]
          IN  IF name \in DOMAIN groups
              THEN report'.log = <<"GroupExists">> /\ Unchanged
              ELSE /\ report'.log = <<>>
                   /\ name \in DOMAIN groups'
                   /\ groups'[name].current_generation = <<>>
                   /\ groups'[name].gene_structure = <<>>
                   /\ groups'[name].gene_length = 0
                   /\ groups'[name].experiment_mode = M_random
                   /\ groups'[name].breed_history = <<>>
                   /\ OthersUnchanged(name)
                   /\ genes' = genes
                   /\ current_group' = name]_vars

\* a second group was created beside a populated, bred one in mode cross
C13_Witness ==
    /\ report.cmd = <<K_create, H>>
    /\ report.log = <<>>
    /\ current_group = H
    /\ groups[H] = SimulationGroup
    /\ G \in DOMAIN groups
    /\ groups[G].current_generation # <<>>
    /\ groups[G].breed_history # <<>>
    /\ groups[G].experiment_mode = M_cross

\* group name was bred by the step: a group of fewer than 2 is as it was, and
\* the failure is reported; any other has a new generation and one more
\* record, and its structure, length and mode are as they were
Bred(name) ==
    LET before == groups[name]
        after == groups'[name]
    IN  IF Len(before.current_generation) < 2
        THEN report'.log = <<"InsufficientPopulation">> /\ after = before
        ELSE /\ report'.log = <<>>
             /\ after.breed_history =
                    Append(before.breed_history,
                           [parent_count |-> Len(before.current_generation),
                            child_count |-> Len(after.current_generation)])
             /\ Len(after.current_generation) < Len(before.current_generation)
             /\ after.gene_structure = before.gene_structure
             /\ after.gene_length = before.gene_length
             /\ after.experiment_mode = before.experiment_mode

\* C14: /run without a group breeds the current group, and with no current
\* group reports NoCurrentGroup and changes nothing; /run name breeds the
\* group of that name, and with a name of no group reports UnknownGroup and
\* changes nothing; in every case no other group, not the registry and not
\* the current group are modified.
C14_RunFrame ==
    [][(Line(K_run, 0) \/ Line(K_run, 1)) =>
          LET name == RunTarget(report'.cmd)
          IN  IF Len(report'.cmd) = 1 /\ current_group = None
              THEN report'.log = <<"NoCurrentGroup">> /\ Unchanged
              ELSE IF name \notin DOMAIN groups
              THEN report'.log = <<"UnknownGroup">> /\ Unchanged
              ELSE /\ DOMAIN groups' = DOMAIN groups
                   /\ Bred(name)
                   /\ OthersUnchanged(name)
                   /\ genes' = genes
                   /\ current_group' = current_group]_vars

\* /run G bred G while H, populated, was the current group
C14_Witness ==
    /\ report.cmd = <<K_run, G>>
    /\ report.log = <<>>
    /\ current_group = H
    /\ groups[G].breed_history # <<>>
    /\ groups[H].breed_history = <<>>
    /\ Len(groups[H].current_generation) = 2

-----------------------------------------------------------------------------
(* Properties of a group's mode, history and members, and of the registry  *)

valid_modes == {M_random, M_cross}

\* the step is a /mode name m that names a group and a mode
ModeSet == Line(K_mode, 2) /\ report'.cmd[2] \in DOMAIN groups /\ report'.cmd[3] \in valid_modes

\* C15: the mode of every group is random or cross; /mode name m with m
\* neither of them, or with a name of no group, fails and changes nothing;
\* with a group and a mode it sets that group's mode to m and nothing else;
\* no other line changes the mode of a group, breeding least of all.
C15_Modes ==
    [][/\ \A name \in DOMAIN groups' : groups'[name].experiment_mode \in valid_modes
       /\ Line(K_mode, 2) =>
             LET name == report'.cmd[2]
                 m == report'.cmd[3]
             IN  IF name \notin DOMAIN groups
                 THEN report'.log = <<"UnknownGroup">> /\ Unchanged
                 ELSE IF m \notin valid_modes
                 THEN report'.log = <<"InvalidMode">> /\ Unchanged
                 ELSE /\ report'.log = <<>>
                      /\ groups' = [groups EXCEPT ![name].experiment_mode = m]
                      /\ genes' = genes
                      /\ current_group' = current_group
       /\ ~ModeSet =>
             \A name \in DOMAIN groups :
                 /\ name \in DOMAIN groups'
                 /\ groups'[name].experiment_mode = groups[name].experiment_mode]_vars

\* a /mode with a mode that is none was refused on a group bred in mode cross
C15_Witness ==
    /\ report.cmd = <<K_mode, G, <<"x">>>>
    /\ report.log = <<"InvalidMode">>
    /\ groups[G].experiment_mode = M_cross
    /\ groups[G].breed_history # <<>>

-----------------------------------------------------------------------------
(* The command loop of /random: one group G, the registry empty or A/a     *)

MaxRandomPop == 2

Drawn(parts) == Step(parts, MaxRandomPop, 0)
RandomGene == Drawn(<<K_add, <<"A">>, <<"a">>, Tall, Short>>)
RandomGroup == Drawn(<<K_create, G>>)
RandomFill ==
    \E amount \in {<<"1">>, <<"2">>}, length \in {<<"2">>, <<"4">>, <<"3">>, <<"0">>, <<"-", "2">>} :
        Drawn(<<K_random, G, amount, length>>)
RandomEmpty == \E g \in {Aa, <<>>} : Drawn(<<K_change, G, g, A_del, <<"1">>>>)

NextRandom ==
    \/ RandomGene
    \/ RandomGroup
    \/ RandomFill
    \/ RandomEmpty
    \/ NextLine

SpecRandom == Init /\ [][NextRandom]_vars

\* the step is a /random name amount length on a group, with numbers
RandomStep ==
    /\ Line(K_random, 3)
    /\ report'.cmd[2] \in DOMAIN groups
    /\ is_int(report'.cmd[3])
    /\ is_int(report'.cmd[4])

\* the organisms the step appended to group name
Inserted(name) ==
    SubSeq(groups'[name].current_generation,
           Len(groups[name].current_generation) + 1,
           Len(groups'[name].current_generation))

\* every locus of str names a registered gene and is not written recessive
\* then dominant
WellOrdered(str) ==
    \A i \in 1..(Len(str) \div 2) : KnownGene(str, i) /\ ~RecessiveFirst(str, i)

\* C16: /random name amount length reports InvalidLength when length is odd
\* and NoGenesDefined when no gene is registered, and adds no organism then;
\* what it inserts comes after the members there were, and every organism
\* inserted has exactly length characters, is dominant first at every locus
\* and passes the validator.
C16_Random ==
    [][RandomStep =>
          LET name == report'.cmd[2]
              length == int(report'.cmd[4])
          IN  /\ length % 2 # 0 => report'.log = <<"InvalidLength">> /\ Unchanged
              /\ length % 2 = 0 /\ DOMAIN genes = {} =>
                     report'.log = <<"NoGenesDefined">> /\ Unchanged
              /\ Len(groups'[name].current_generation) >= Len(groups[name].current_generation)
              /\ SubSeq(groups'[name].current_generation, 1, Len(groups[name].current_generation))
                     = groups[name].current_generation
              /\ \A n \in DOMAIN Inserted(name) :
                     LET g == Inserted(name)[n]
                     IN  /\ Len(g) = length
                         /\ WellOrdered(g)
                         /\ validate(g, genes) = "ok"]_vars

-----------------------------------------------------------------------------
(* The command loop over one group of at most two organisms of A/a, bred   *)
(* more than once                                                          *)

MaxLogPop == 2
MaxLogRuns == 2

Logged(parts) == Step(parts, MaxLogPop, MaxLogRuns)
LogSetup ==
    \E parts \in {<<K_add, <<"A">>, <<"a">>, Tall, Short>>, <<K_create, G>>, <<K_read, G>>} :
        Logged(parts)
LogChange ==
    \E g \in {Aa, aa}, op \in {A_add, A_del}, k \in {<<"1">>, <<"2">>} :
        Logged(<<K_change, G, g, op, k>>)
LogRun == \E parts \in {<<K_run>>, <<K_run, G>>, <<K_write, G>>, <<K_run, X>>} : Logged(parts)
LogRuns == Logged(<<K_runs, <<"2">>>>)
LogOther ==
    \E parts \in {<<K_mode, G, M_cross>>, <<K_random, G, <<"1">>, <<"2">>>>, <<K_show, G>>,
                  <<K_list>>, <<K_list, G>>, <<K_load, Script>>, <<K_delete, G>>, <<K_save, G>>} :
        Logged(parts)

NextLog ==
    \/ LogSetup
    \/ LogChange
    \/ LogRun
    \/ LogRuns
    \/ LogOther
    \/ NextLine

SpecLog == Init /\ [][NextLog]_vars

\* the records the step appended to the history of group name
Appended(name) ==
    SubSeq(groups'[name].breed_history,
           Len(groups[name].breed_history) + 1,
           Len(groups'[name].breed_history))

\* the step is a /run or a /write of group name
BreedsOnce(name) ==
    /\ Line(K_run, 0) \/ Line(K_run, 1) \/ Line(K_write, 0) \/ Line(K_write, 1)
    /\ RunTarget(report'.cmd) = name

\* the step is a /runs or a /load, which issue lines of their own
Replays == lower(report'.cmd[1]) \in {K_runs, K_load}

\* C17: the history of a group only grows at its end: a successful breed
\* appends exactly one record, whose parent_count is the size of the group
\* before it and whose child_count the size after it; a failed breed appends
\* nothing; no other line removes, reorders, alters or adds a record.
C17_History ==
    [][\A name \in DOMAIN groups :
          /\ name \in DOMAIN groups'
          /\ Len(groups'[name].breed_history) >= Len(groups[name].breed_history)
          /\ SubSeq(groups'[name].breed_history, 1, Len(groups[name].breed_history))
                 = groups[name].breed_history
          /\ LET recs == Appended(name)
                 before == Len(groups[name].current_generation)
                 after == Len(groups'[name].current_generation)
             IN  /\ recs # <<>> =>
                       /\ recs[1].parent_count = before
                       /\ recs[Len(recs)].child_count = after
                       /\ \A i \in 2..Len(recs) : recs[i].parent_count = recs[i - 1].child_count
                 /\ BreedsOnce(name) =>
                       IF report'.log = <<>>
                       THEN recs = <<[parent_count |-> before, child_count |-> after]>>
                       ELSE recs = <<>> /\ groups'[name] = groups[name]
                 /\ (report'.cmd = <<>> \/ ~(BreedsOnce(name) \/ Replays)) => recs = <<>>]_vars

\* a second record was appended after the first
C17_Witness ==
    /\ report.cmd = <<K_run, G>>
    /\ report.log = <<>>
    /\ groups[G].breed_history = <<[parent_count |-> 2, child_count |-> 1],
                                   [parent_count |-> 2, child_count |-> 1]>>
    /\ Len(groups[G].current_generation) = 1

-----------------------------------------------------------------------------
(* The command loop and the statistics of group G, of one locus A/a        *)

MaxStatsPop == 3

Counted(parts) == Step(parts, MaxStatsPop, 1)
StatsSetup == \E parts \in {<<K_add, <<"A">>, <<"a">>, Tall, Short>>, <<K_create, G>>} : Counted(parts)
StatsFill ==
    \E g \in {AA, Aa, aa}, op \in {A_add, A_del} : Counted(<<K_change, G, g, op, <<"1">>>>)
StatsRun == Counted(<<K_run, G>>)

\* /show G: show_group's call of get_statistics, what it returned in probe
ShowStats ==
    /\ Prompt
    /\ G \in DOMAIN groups
    /\ LET r == get_statistics(groups[G], genes)
       IN  /\ groups' = [groups EXCEPT ![G] = r.val]
           /\ probe' = <<[exc |-> r.exc, stats |-> r.stats]>>
           /\ report' = [cmd |-> <<K_show, G>>,
                         log |-> IF r.exc = "none" THEN <<>> ELSE <<r.kind>>,
                         escaped |-> "none"]
    /\ UNCHANGED <<genes, current_group>>

NextStats ==
    \/ StatsSetup
    \/ StatsFill
    \/ StatsRun
    \/ ShowStats
    \/ NextLine

SpecStats == Init /\ [][NextStats]_vars

\* the sum of the values of field over the entries of table
RECURSIVE SumOf(_, _)
SumOf(table, keys) ==
    IF keys = {} THEN 0
    ELSE LET k == CHOOSE k \in keys : TRUE
         IN  table[k] + SumOf(table, keys \ {k})
Counts(table) == SumOf([k \in DOMAIN table |-> table[k].count], DOMAIN table)
Numerators(table) == SumOf([k \in DOMAIN table |-> table[k].ratio.num], DOMAIN table)

\* every ratio of table is count / total, and together they are 1 when
\* total > 0 (0 / 1 each when total = 0)
Ratios(table, total) ==
    /\ \A k \in DOMAIN table :
           IF total > 0
           THEN table[k].ratio.num = table[k].count /\ table[k].ratio.den = total
           ELSE table[k].ratio.num = 0
    /\ total > 0 => Numerators(table) = total

\* C18: the statistics of a group report total = the number of its organisms,
\* genotype counts that sum to total and phenotype counts that sum to total,
\* every ratio = count / total (each distribution summing to 1 when total >
\* 0); on an empty group nothing is divided and nothing raised, and every
\* ratio reported is 0; computing them leaves the population as it was.
C18_Statistics ==
    [][(Line(K_show, 1) /\ report'.cmd[2] \in DOMAIN groups) =>
          LET gen == groups[report'.cmd[2]].current_generation
              stats == probe'[1].stats
          IN  /\ probe'[1].exc = "none"
              /\ stats.total = Len(gen)
              /\ DOMAIN stats.genotypes = Range(gen)
              /\ \A g \in Range(gen) : stats.genotypes[g].count = count(gen, g)
              /\ Counts(stats.genotypes) = stats.total
              /\ Counts(stats.phenotypes) = stats.total
              /\ Ratios(stats.genotypes, stats.total)
              /\ Ratios(stats.phenotypes, stats.total)
              /\ Unchanged]_vars

\* the statistics of two Aa and one aa were taken
C18_Witness ==
    /\ report.cmd = <<K_show, G>>
    /\ probe # <<>>
    /\ probe[1].stats.total = 3
    /\ probe[1].stats.genotypes = (Aa :> [count |-> 2, ratio |-> [num |-> 2, den |-> 3]])
                                  @@ (aa :> [count |-> 1, ratio |-> [num |-> 1, den |-> 3]])
    /\ Cardinality(DOMAIN probe[1].stats.phenotypes) = 2

AddsStep(name) ==
    /\ Line(K_change, 4)
    /\ report'.cmd[2] = name
    /\ report'.cmd[4] = A_add
    /\ is_int(report'.cmd[5])
    /\ int(report'.cmd[5]) >= 0

\* C20: /change name g add k, k >= 0, is all or nothing: it succeeds and the
\* members of the group are the members before followed by exactly k copies
\* of g, or it fails and the members are the members before; it never leaves
\* some of the k copies behind.
C20_AddAllOrNothing ==
    [][\A name \in DOMAIN groups :
          AddsStep(name) =>
              LET g == report'.cmd[3]
                  k == int(report'.cmd[5])
                  before == groups[name].current_generation
                  after == groups'[name].current_generation
              IN  IF report'.log = <<>>
                  THEN after = before \o repeat(g, k)
                  ELSE after = before]_vars

\* an add of two AaAa failed inside the loop, on the first copy, and left no
\* member behind
C20_Witness ==
    /\ report.cmd = <<K_change, G, AaAa, A_add, <<"2">>>>
    /\ report.log = <<"RepeatedGene">>
    /\ groups[G].current_generation = <<>>

-----------------------------------------------------------------------------
(* The second loop of _create_child on one locus: a gene of the registry   *)
(* and two of its alleles, as drawn                                        *)

\* the loci of the genes of the registry, in either order
Loci ==
    {[symbol |-> symbol, locus |-> <<x, y>>, out |-> <<>>] :
        symbol \in DOMAIN genes, x \in Alleles, y \in Alleles}
RegisteredLoci ==
    {l \in Loci : {l.locus[1], l.locus[2]}
                      \subseteq {genes[l.symbol].dominant, genes[l.symbol].recessive}}

InitCanon ==
    /\ genes \in Registries
    /\ groups = GeneticSimulationSystem.groups
    /\ current_group = GeneticSimulationSystem.current_group
    /\ report = NoReport
    /\ probe \in RegisteredLoci

\* the loop over the gametes drawn for one locus
Canonicalize ==
    /\ probe.out = <<>>
    /\ probe' = [probe EXCEPT !.out = <<sort_loci(probe.locus, genes, 1)>>]
    /\ UNCHANGED <<genes, groups, current_group, report>>

\* the loop again, over what it returned
Recanonicalize ==
    /\ Len(probe.out) = 1
    /\ probe.out[1].exc = "none"
    /\ probe' = [probe EXCEPT !.out = Append(@, sort_loci(probe.out[1].val, genes, 1))]
    /\ UNCHANGED <<genes, groups, current_group, report>>

NextCanon == Canonicalize \/ Recanonicalize \/ Return

SpecCanon == InitCanon /\ [][NextCanon]_vars

\* C21: for every gene of the registry and every two of its alleles, the
\* locus canonicalized is the locus written dominant first: a dominant-first
\* locus and a homozygous one come back unchanged, recessive-then-dominant
\* comes back swapped, nothing is raised, and canonicalizing the result again
\* changes nothing.
C21_Canonical ==
    probe.out # <<>> =>
        LET gene == genes[probe.symbol]
            x == probe.locus[1]
            y == probe.locus[2]
        IN  /\ probe.out[1] = Returned(IF x = gene.recessive /\ y = gene.dominant
                                       THEN <<y, x>> ELSE <<x, y>>)
            /\ Len(probe.out) = 2 => probe.out[2] = probe.out[1]

-----------------------------------------------------------------------------
(* Invariants of the registry, the groups and the current group            *)

\* C24: every gene of the registry is stored under its dominant allele, which
\* is the uppercase form of its symbol, and its recessive allele is the
\* lowercase form of the same symbol, so that each of its loci is found by
\* the uppercase form of its first character.
C24_GeneInvariant ==
    \A symbol \in DOMAIN genes :
        /\ Len(symbol) = 1
        /\ symbol = <<genes[symbol].dominant>>
        /\ genes[symbol].dominant = upper_char(symbol[1])
        /\ genes[symbol].recessive = lower_char(symbol[1])

-----------------------------------------------------------------------------
(* The command loop on one group of two loci, of the genes A/a and B/b,    *)
(* filled and bred once                                                    *)

MaxLociPop == 2
BbAa == <<"B", "b", "A", "a">>

Placed(parts) == Step(parts, MaxLociPop, 1)
LociSetup ==
    \E parts \in {<<K_add, <<"A">>, <<"a">>, Tall, Short>>, <<K_add, <<"B">>, <<"b">>, Red, White>>,
                  <<K_create, G>>} :
        Placed(parts)
LociFill == \E g \in {AaBb, BbAa, Aa} : Placed(<<K_change, G, g, A_add, <<"1">>>>)
LociRun == Placed(<<K_run, G>>)

NextLoci ==
    \/ LociSetup
    \/ LociFill
    \/ LociRun
    \/ NextLine

SpecLoci == Init /\ [][NextLoci]_vars

\* C22: every genotype stored in a group passes the validator against the
\* registry: even length, at every locus alleles of the gene its first
\* character names, dominant first; the children of a breed included.
C22_MembersValid ==
    \A name \in DOMAIN groups :
        \A n \in DOMAIN groups[name].current_generation :
            validate(groups[name].current_generation[n], genes) = "ok"

\* C23: every genotype of a group has, at every locus position k, two alleles
\* of the gene at position k of the group's structure.
C23_SharedStructure ==
    \A name \in DOMAIN groups :
        \A n \in DOMAIN groups[name].current_generation :
            LET member == groups[name].current_generation[n]
                structure == groups[name].gene_structure
            IN  /\ Len(member) = 2 * Len(structure)
                /\ \A k \in 1..Len(structure) :
                       {member[2 * k - 1], member[2 * k]}
                           \subseteq {structure[k].dominant, structure[k].recessive}

\* C25: an add that is rejected, for whatever reason, leaves the group's
\* locked length, its structure and its members exactly as they were, and in
\* every state the locked length of a group is twice the number of genes of
\* its structure.
C25_RejectedAddKeepsStructure ==
    [][/\ \A name \in DOMAIN groups :
              (/\ Line(K_change, 4)
               /\ report'.cmd[2] = name
               /\ report'.cmd[4] = A_add
               /\ report'.log # <<>>) => groups'[name] = groups[name]
       /\ \A name \in DOMAIN groups' :
              groups'[name].gene_length = 2 * Len(groups'[name].gene_structure)]_vars

\* C26: the current group is unset or is the name of a group of the map;
\* /read name makes name the current group when there is such a group and
\* changes nothing else, and otherwise reports UnknownGroup and changes
\* nothing; no line removes a group from the map.
C26_CurrentGroup ==
    [][/\ current_group' = None \/ current_group' \in DOMAIN groups'
       /\ DOMAIN groups \subseteq DOMAIN groups'
       /\ Line(K_read, 1) =>
              IF report'.cmd[2] \in DOMAIN groups
              THEN /\ report'.log = <<>>
                   /\ current_group' = report'.cmd[2]
                   /\ groups' = groups
                   /\ genes' = genes
              ELSE report'.log = <<"UnknownGroup">> /\ Unchanged]_vars

\* a /read of no group was refused after the current group had been switched
\* back from H, created last, to G
C26_Witness ==
    /\ report.cmd = <<K_read, X>>
    /\ report.log = <<"UnknownGroup">>
    /\ current_group = G
    /\ DOMAIN groups = {G, H}
    /\ groups[G].breed_history # <<>>
    /\ groups[H].breed_history # <<>>

-----------------------------------------------------------------------------
(* Properties of breeding                                                  *)

\* C27: the pair list of cross mode (the position-wise zips of every two
\* genotypes and the pairs within each genotype) of a population of N >= 2
\* holds at least N div 2 pairs, so that a breed in cross mode that succeeds
\* leaves exactly N div 2 children.
C27_CrossPairs ==
    [][\A name \in DOMAIN groups :
          LET parents == groups[name].current_generation
              N == Len(parents)
          IN  N >= 2 =>
                  /\ Len(cross_pairs(parents, distinct_keys(parents), 1)) >= N \div 2
                  /\ (/\ Line(K_run, 0) \/ Line(K_run, 1) \/ Line(K_write, 0) \/ Line(K_write, 1)
                      /\ RunTarget(report'.cmd) = name
                      /\ groups[name].experiment_mode = M_cross
                      /\ report'.log = <<>>)
                     => Len(groups'[name].current_generation) = N \div 2]_vars

\* three parents were bred in cross mode and left one child
C27_Witness ==
    /\ report.cmd = <<K_write>>
    /\ report.log = <<>>
    /\ current_group = G
    /\ groups[G].experiment_mode = M_cross
    /\ Len(groups[G].current_generation) = 1
    /\ groups[G].breed_history = <<[parent_count |-> 3, child_count |-> 1]>>

-----------------------------------------------------------------------------
(* A session that fills group G and then issues /run G again and again,    *)
(* nothing else in between                                                 *)

MaxRepeatPop == 4
MaxRepeatRuns == 3

\* the session has come to its /run lines
Repeating == probe = <<"repeat">>

Session(parts) == probe = <<>> /\ Step(parts, MaxRepeatPop, MaxRepeatRuns)
RepeatSetup ==
    \E parts \in {<<K_add, <<"A">>, <<"a">>, Tall, Short>>, <<K_create, G>>,
                  <<K_mode, G, M_cross>>, <<K_mode, G, M_random>>} :
        Session(parts)
RepeatFill ==
    \E g \in {AA, Aa, aa}, k \in {<<"1">>, <<"2">>} : Session(<<K_change, G, g, A_add, k>>)

\* the last line before the /run lines has been processed: G has N >= 2
StartRepeat ==
    /\ Prompt
    /\ probe = <<>>
    /\ G \in DOMAIN groups
    /\ Len(groups[G].current_generation) >= 2
    /\ probe' = <<"repeat">>
    /\ UNCHANGED <<genes, groups, current_group, report>>

RepeatRun == Repeating /\ Step(<<K_run, G>>, MaxRepeatPop, MaxRepeatRuns)

NextRepeat ==
    \/ RepeatSetup
    \/ RepeatFill
    \/ StartRepeat
    \/ RepeatRun
    \/ NextLine

\* a /run line can be processed whenever the loop is at its prompt:
\* process_command returns on every line
RunEnabled == Repeating /\ Prompt

\* the /run lines keep coming and each is processed to its end: weak fairness
\* of RepeatRun, its enabling condition written out, and of NextLine
SpecRepeat ==
    /\ Init
    /\ [][NextRepeat]_vars
    /\ ([]<>~RunEnabled \/ []<><<RepeatRun>>_vars)
    /\ WF_vars(NextLine)

Size == Len(groups[G].current_generation)

\* C28: under /run repeated on a group of N >= 2, in either mode, every run
\* that succeeds leaves fewer organisms than there were and at least one; the
\* group comes to hold exactly 1, and from then on every /run reports
\* InsufficientPopulation and the group, its members and its history, stays
\* as it is for ever.
C28_RepeatedRun ==
    /\ [][Repeating =>
             /\ Repeating'
             /\ Line(K_run, 1) =>
                    IF report'.log = <<>>
                    THEN Size >= 2 /\ Size' < Size /\ Size' >= 1
                    ELSE groups' = groups
             /\ Size = 1 =>
                    /\ groups' = groups
                    /\ Line(K_run, 1) => report'.log = <<"InsufficientPopulation">>]_vars
    /\ Repeating ~> (Repeating /\ Size = 1)

\* four were bred down to one and the next /run was refused
C28_Witness ==
    /\ Repeating
    /\ report.cmd = <<K_run, G>>
    /\ report.log = <<"InsufficientPopulation">>
    /\ groups[G].current_generation # <<>>
    /\ groups[G].breed_history = <<[parent_count |-> 4, child_count |-> 2],
                                   [parent_count |-> 2, child_count |-> 1]>>

====
